---------------------------- MODULE Spec2Model ----------------------------
(***************************************************************************)
(* A model of gitmodel.workspace.Workspace (src/gitmodel/workspace.py):    *)
(* several Workspace instances sharing one object store.                   *)
(*                                                                         *)
(* The store holds immutable commits and mutable references; a Workspace   *)
(* holds its index (a tree) and its head (the tracked branch reference).   *)
(* A tree is modelled by its content: the set of its leaves, each a        *)
(* record [path, oid] with path the sequence of names from the root.  Two  *)
(* trees with the same content are the same object (content addressing).   *)
(* A leaf's oid stands for the pair (blob id, mode) of the tree entry.     *)
(* Signatures and messages of commits are left out: no operation of the    *)
(* Workspace reads them.  A commit's identifier is its position in the     *)
(* sequence of commits written to the store.                               *)
(*                                                                         *)
(* Specifications: Spec (the operations of two workspaces, each atomic),   *)
(* BranchSpec (branches created and switched, three names), TreeSpec       *)
(* (adds in nested directories), BuildSpec (git.build_path called as the   *)
(* tests do), RaceSpec (commit run line by line) and LockSpec (lock).      *)
(***************************************************************************)
EXTENDS Naturals, Integers, Sequences, FiniteSets, TLC

\* ------------------------------------------------------------------ bounds
MaxCommits == 3
MaxTime == 2
MaxCalls == 2

Workspaces == {"w1", "w2"}
Branches == {"refs/heads/master", "refs/heads/dev", "refs/heads/topic"}
LockIds == {"a", "b"}
\* A path is the sequence of its pieces: names and the separator "/".
\* The inputs of add and add_blob: one directory, one leaf name, two contents,
\* so that an add can create a leaf, replace it, and restore it.
DirPaths == {<<"foo">>}
FileNames == {"x"}
Contents == {"c1", "c2"}
BlobPaths == {d \o <<"/", n>> : d \in DirPaths, n \in FileNames}

\* ------------------------------------------------------------------ state
VARIABLES
  commits,    \* store: the commits written so far, commit id = position
  refs,       \* store: branch reference -> commit id, 0 = no such reference
  lockRefs,   \* store: the ids for which refs/locks/<id> exists
  head,       \* Workspace.head, per workspace
  index,      \* Workspace.index, per workspace
  cos,        \* position of a commit_on_success generator: "out" | "in"
  cosTouched, \* whether an operation changed the index inside the last scope
  lastOp,     \* the last operation run: [op, w]
  ret,        \* what it returned or raised: [err, oid]
  now,        \* the wall clock read by time()
  lockPc,     \* position of a lock() generator, per workspace
  lockId,     \* its id argument
  lockStart,  \* its start_time
  lockErr,    \* the error its last call raised, "" = none
  call,       \* the last direct call of git.build_path, and the one before
  cpc,        \* position of a commit() run line by line, per workspace
  cpar,       \* its local variable parents
  cret        \* what it returned: a commit id, 0 = None or not yet

storeVars == <<commits, refs, lockRefs>>
wsVars == <<head, index>>
cosVars == <<cos, cosTouched>>
lockVars == <<now, lockPc, lockId, lockStart, lockErr>>
raceVars == <<cpc, cpar, cret>>
vars == <<commits, refs, lockRefs, head, index, cos, cosTouched, lastOp, ret,
          now, lockPc, lockId, lockStart, lockErr, call, cpc, cpar, cret>>

\* ------------------------------------------------------------ configuration
DEFAULT_BRANCH == "refs/heads/master"
LOCK_WAIT_TIMEOUT == 1

\* ------------------------------------------------------------- object store
\* repo.TreeBuilder().write() of a builder with no entries: the empty tree.
EmptyTree == {}

\* len(tree): the number of entries of the root directory.  Python takes a
\* pygit2 Tree for false in a condition exactly when this is 0.
TreeLen(tree) == Cardinality({t.path[1] : t \in tree})

\* repo.create_blob(content): the identifier is the hash of the content.
create_blob(content) == <<"blob", content>>

\* repo.lookup_reference(ref).oid, 0 standing for KeyError.
lookup_reference(ref) == refs[ref]

\* path.strip('/'): the path without the separators at its two ends.
RECURSIVE strip(_)
strip(path) ==
  IF path = << >> THEN path
  ELSE IF Head(path) = "/" THEN strip(Tail(path))
  ELSE IF path[Len(path)] = "/" THEN strip(SubSeq(path, 1, Len(path) - 1))
  ELSE path

\* path.split('/'): the names between the separators, "" where two
\* separators, or a separator and an end of the path, are adjacent.
RECURSIVE split_sep(_)
split_sep(path) ==
  IF path = << >> THEN <<"">>
  ELSE IF Head(path) = "/" THEN <<"">> \o split_sep(Tail(path))
  ELSE IF Len(path) = 1 THEN path
  ELSE <<Head(path)>> \o split_sep(Tail(Tail(path)))

\* The directories build_path goes down through: none for the root.
path_segments(path) ==
  IF strip(path) = << >> THEN << >> ELSE split_sep(strip(path))

\* place keeping every leaf of base_tree beside the new ones.
place_Appends(segments, entries, base_tree) ==
  base_tree \cup {[path |-> segments \o <<entries[i].name>>,
                   oid |-> entries[i].oid] : i \in DOMAIN entries}

\* The tree that is base_tree with every entry of `entries` placed in the
\* directory `segments`, an entry of the same name there being replaced,
\* every other leaf kept.
place(segments, entries, base_tree) ==
  LET new == {[path |-> segments \o <<entries[i].name>>,
               oid |-> entries[i].oid] : i \in DOMAIN entries}
      kept == {t \in base_tree : \A n \in new : n.path # t.path}
  IN  kept \cup new

\* build_path taking the path as it is given.
build_path_Unstripped(path, entries, base_tree) ==
  place(split_sep(path), entries, base_tree)

\* git.build_path(repo, path, entries, base_tree)
build_path(path, entries, base_tree) ==
  place(path_segments(path), entries, base_tree)

\* Sequence a is the beginning of sequence b.
IsPrefix(a, b) == Len(a) <= Len(b) /\ SubSeq(b, 1, Len(a)) = a

\* The order of names in a tree: the names the model uses, sorted.
NameOrder ==
  <<"", "bar", "baz", "foo", "qux.txt", "test.txt", "test2.txt", "x", "y",
    "z">>

\* The entries of directory dir of a tree, in the order of the tree.
children(tree, dir) ==
  SelectSeq(NameOrder, LAMBDA n : \E t \in tree : IsPrefix(dir \o <<n>>, t.path))

RECURSIVE indent(_)
indent(depth) == IF depth = 0 THEN "" ELSE "  " \o indent(depth - 1)

RECURSIVE join(_)
join(lines) ==
  IF lines = << >> THEN ""
  ELSE IF Len(lines) = 1 THEN lines[1]
  ELSE lines[1] \o "\n" \o join(Tail(lines))

\* The lines describing the entries `names` of directory dir: a directory
\* is its name and "/", followed by the lines of its own entries, two spaces
\* deeper; a file is its name.
RECURSIVE describe_entries(_, _, _)
describe_entries(tree, dir, names) ==
  IF names = << >> THEN << >>
  ELSE LET here == dir \o <<Head(names)>>
           isdir == \E t \in tree : IsPrefix(here, t.path) /\ t.path # here
       IN  <<indent(Len(dir)) \o Head(names) \o (IF isdir THEN "/" ELSE "")>>
           \o (IF isdir
               THEN describe_entries(tree, here, children(tree, here))
               ELSE << >>)
           \o describe_entries(tree, dir, Tail(names))

\* git.describe_tree(repo, tree)
describe_tree(tree) ==
  join(describe_entries(tree, << >>, children(tree, << >>)))

\* os.path.split(path): (directory, leaf name), cut at the last separator.
split(path) ==
  LET seps == {i \in DOMAIN path : path[i] = "/"}
      last == IF seps = {} THEN 0
              ELSE CHOOSE i \in seps : \A j \in seps : j <= i
  IN  <<SubSeq(path, 1, last - 1),
        IF last = Len(path) THEN "" ELSE path[Len(path)]>>

\* tree_a.diff(tree_b).changes: the leaves in which the two trees differ.
TreeDiff(a, b) == (a \ b) \cup (b \ a)

\* ------------------------------------------------------------- Branch view
\* Branch(repo, ref), defined when the reference exists.
Branch(ref) ==
  [oid |-> lookup_reference(ref),
   commit |-> commits[lookup_reference(ref)],
   tree |-> commits[lookup_reference(ref)].tree]

\* Workspace.branch is None exactly when the lookup raises KeyError.
branch_exists(w) == lookup_reference(head[w]) # 0

\* diff comparing the index with the empty tree whatever the branch holds.
diff_AgainstEmpty(w) == TreeDiff(EmptyTree, index[w])

\* Workspace.diff
diff(w) ==
  LET tree == IF branch_exists(w) THEN Branch(head[w]).tree ELSE EmptyTree
  IN  TreeDiff(tree, index[w])

\* Workspace.has_changes
has_changes(w) == Cardinality(diff(w)) > 0

\* repo.walk(oid, sort): the commits reached from commit oid through parents
\* (the order they are yielded in is left out).
RECURSIVE repo_walk(_)
repo_walk(oid) ==
  {oid} \cup UNION {repo_walk(commits[oid].parents[i]) :
                      i \in DOMAIN commits[oid].parents}

\* Workspace.walk, defined when the tracked branch exists.
walk(w) == repo_walk(Branch(head[w]).oid)

\* What an operation returns or raises: err is the error raised ("" = none),
\* oid the commit id returned (0 = None).
Returns(err, oid) == ret' = [err |-> err, oid |-> oid]
\* Bookkeeping for an operation of w that may replace its index.
Touches(w) ==
  /\ cosTouched' = [cosTouched EXCEPT
                      ![w] = @ \/ (cos[w] = "in" /\ index'[w] # index[w])]
  /\ UNCHANGED cos
\* The operation a step runs, and the workspace it is called on.
Ran(op, w) == lastOp' = [op |-> op, w |-> w]

\* No direct call of git.build_path has been made.
NoCall ==
  [n |-> 0, path |-> << >>, entries |-> << >>, based |-> FALSE,
   base |-> EmptyTree, result |-> EmptyTree,
   prevPath |-> << >>, prevEntries |-> << >>]

\* ------------------------------------------------------------------- Init
\* A fresh repository: DEFAULT_BRANCH does not exist, so every constructor
\* takes the KeyError branch and sets the index to the empty tree.
InitWorkspace ==
  /\ commits = << >>
  /\ refs = [b \in Branches |-> 0]
  /\ head = [w \in Workspaces |-> DEFAULT_BRANCH]
  /\ index = [w \in Workspaces |-> EmptyTree]
  /\ cos = [w \in Workspaces |-> "out"]
  /\ cosTouched = [w \in Workspaces |-> FALSE]
  /\ lastOp = [op |-> "init", w |-> "w1"]
  /\ ret = [err |-> "", oid |-> 0]
  /\ now = 0
  /\ lockPc = [w \in Workspaces |-> "idle"]
  /\ lockId = [w \in Workspaces |-> "a"]
  /\ lockStart = [w \in Workspaces |-> 0]
  /\ lockErr = [w \in Workspaces |-> ""]
  /\ call = NoCall
  /\ cpc = [w \in Workspaces |-> "idle"]
  /\ cpar = [w \in Workspaces |-> << >>]
  /\ cret = [w \in Workspaces |-> 0]

Init == InitWorkspace /\ lockRefs = {}

\* ------------------------------------------------------------- operations
\* add building on the empty tree instead of the index.
add_NoBase(w, path, entries) ==
  /\ index' = [index EXCEPT ![w] = build_path(path, entries, EmptyTree)]
  /\ UNCHANGED <<head, commits, refs, lockRefs>>

\* add writing the tree it builds into the index of every workspace.
add_SharedIndex(w, path, entries) ==
  /\ index' = [v \in Workspaces |-> build_path(path, entries, index[w])]
  /\ UNCHANGED <<head, commits, refs, lockRefs>>

\* Workspace.add
add(w, path, entries) ==
  /\ index' = [index EXCEPT ![w] = build_path(path, entries, index[w])]
  /\ UNCHANGED <<head, commits, refs, lockRefs>>

Add(w, path, entries) ==
  /\ add(w, path, entries)
  /\ Returns("", 0) /\ Ran("add", w)
  /\ Touches(w)
  /\ UNCHANGED lockVars
  /\ UNCHANGED <<call, raceVars>>

\* Workspace.add_blob.  The blob id it returns is not recorded in ret.
AddBlob(w, path, content) ==
  /\ LET dir == split(path)[1]
         name == split(path)[2]
         blob == create_blob(content)
     IN  add(w, dir, <<[name |-> name, oid |-> blob]>>)
  /\ Returns("", 0) /\ Ran("add_blob", w)
  /\ Touches(w)
  /\ UNCHANGED lockVars
  /\ UNCHANGED <<call, raceVars>>

\* create_commit passing no parents to the store.
create_commit_DropsParents(ref, tree, parents) ==
  /\ commits' = Append(commits, [tree |-> tree, parents |-> << >>])
  /\ refs' = [refs EXCEPT ![ref] = Len(commits) + 1]
  /\ Returns("", Len(commits) + 1)

\* create_commit writing the commit without moving the reference.
create_commit_KeepsRef(ref, tree, parents) ==
  /\ commits' = Append(commits, [tree |-> tree, parents |-> parents])
  /\ UNCHANGED refs
  /\ Returns("", Len(commits) + 1)

\* create_commit through a store that refuses a commit whose first parent is
\* not the commit the reference points at.
create_commit_ChecksTip(ref, tree, parents) ==
  IF refs[ref] # (IF parents = << >> THEN 0 ELSE parents[1])
  THEN /\ Returns("GitError: current tip is not the first parent", 0)
       /\ UNCHANGED <<commits, refs>>
  ELSE /\ commits' = Append(commits, [tree |-> tree, parents |-> parents])
       /\ refs' = [refs EXCEPT ![ref] = Len(commits) + 1]
       /\ Returns("", Len(commits) + 1)

\* Workspace.create_commit: repo.create_commit writes the commit and makes
\* `ref` point at it (creating the reference when it does not exist).
\* commit always passes a list of parents, so the lookup of lines 181-187,
\* made when parents is None, is not run.
create_commit(ref, tree, parents) ==
  /\ commits' = Append(commits, [tree |-> tree, parents |-> parents])
  /\ refs' = [refs EXCEPT ![ref] = Len(commits) + 1]
  /\ Returns("", Len(commits) + 1)

\* commit without the has_changes test of line 158.
commit_Unguarded(w) ==
  LET parents == IF branch_exists(w) THEN <<Branch(head[w]).oid>> ELSE << >>
  IN  create_commit(head[w], index[w], parents)

\* Workspace.commit
commit(w) ==
  IF ~has_changes(w)
  THEN /\ Returns("", 0)
       /\ UNCHANGED <<commits, refs>>
  ELSE LET parents == IF branch_exists(w) THEN <<Branch(head[w]).oid>>
                      ELSE << >>
       IN  create_commit(head[w], index[w], parents)

Commit(w) ==
  /\ has_changes(w) => Len(commits) < MaxCommits
  /\ commit(w)
  /\ Ran("commit", w)
  /\ UNCHANGED <<lockRefs, wsVars, cosVars, lockVars>>
  /\ UNCHANGED <<call, raceVars>>

\* 'refs/heads/{}'.format(name)
BranchNames == {"master", "dev"}
TopicNames == BranchNames \cup {"topic"}
head_ref(name) ==
  CASE name = "master" -> "refs/heads/master"
    [] name = "dev" -> "refs/heads/dev"
    [] name = "topic" -> "refs/heads/topic"

\* create_branch starting from the tracked branch whatever start_point is.
create_branch_FromHead(w, name, start_point) ==
  IF lookup_reference(head[w]) = 0
  THEN /\ Returns("RepositoryError: Reference not found", 0)
       /\ UNCHANGED refs
  ELSE IF lookup_reference(head_ref(name)) # 0
  THEN /\ Returns("ValueError: reference exists", 0)
       /\ UNCHANGED refs
  ELSE /\ refs' = [refs EXCEPT ![head_ref(name)] = lookup_reference(head[w])]
       /\ Returns("", 0)

\* Workspace.create_branch.  start_point "" is the omitted argument.  Every
\* reference of the model is a direct one, whose type GIT_REF_OID equals
\* GIT_OBJ_COMMIT, so the ValueError of line 70 is not raised.
\* repo.create_reference refuses a name that exists.
create_branch(w, name, start_point) ==
  LET sp == IF start_point = "" THEN head[w] ELSE start_point
  IN  IF lookup_reference(sp) = 0
      THEN /\ Returns("RepositoryError: Reference not found", 0)
           /\ UNCHANGED refs
      ELSE IF lookup_reference(head_ref(name)) # 0
      THEN /\ Returns("ValueError: reference exists", 0)
           /\ UNCHANGED refs
      ELSE /\ refs' = [refs EXCEPT ![head_ref(name)] = lookup_reference(sp)]
           /\ Returns("", 0)

CreateBranch(w, name, start_point) ==
  /\ create_branch(w, name, start_point)
  /\ Ran("create_branch", w)
  /\ UNCHANGED <<commits, lockRefs, wsVars, cosVars, lockVars>>
  /\ UNCHANGED <<call, raceVars>>

\* update_index without the pending-changes test of line 95.
update_index_Unguarded(w, ref) ==
  IF lookup_reference(ref) = 0
  THEN /\ Returns("RepositoryError: Reference not found", 0)
       /\ UNCHANGED <<head, index>>
  ELSE /\ head' = [head EXCEPT ![w] = ref]
       /\ index' = [index EXCEPT ![w] = Branch(ref).tree]
       /\ Returns("", 0)

\* update_index moving the head without reading the tree of the branch.
update_index_KeepsIndex(w, ref) ==
  IF TreeLen(index[w]) > 0 /\ has_changes(w)
  THEN /\ Returns("RepositoryError: Cannot checkout a different branch with pending changes", 0)
       /\ UNCHANGED <<head, index>>
  ELSE IF lookup_reference(ref) = 0
  THEN /\ Returns("RepositoryError: Reference not found", 0)
       /\ UNCHANGED <<head, index>>
  ELSE /\ head' = [head EXCEPT ![w] = ref]
       /\ UNCHANGED index
       /\ Returns("", 0)

\* Workspace.update_index.  `self.index and ...` takes the index for false
\* when it is None or a tree with no entries.
update_index(w, ref) ==
  IF TreeLen(index[w]) > 0 /\ has_changes(w)
  THEN /\ Returns("RepositoryError: Cannot checkout a different branch with pending changes", 0)
       /\ UNCHANGED <<head, index>>
  ELSE IF lookup_reference(ref) = 0
  THEN /\ Returns("RepositoryError: Reference not found", 0)
       /\ UNCHANGED <<head, index>>
  ELSE /\ head' = [head EXCEPT ![w] = ref]
       /\ index' = [index EXCEPT ![w] = Branch(ref).tree]
       /\ Returns("", 0)

\* Workspace.set_branch
set_branch(w, name) ==
  IF lookup_reference(head_ref(name)) = 0
  THEN /\ Returns("RepositoryError: Reference not found", 0)
       /\ UNCHANGED <<head, index>>
  ELSE update_index(w, head_ref(name))

SetBranch(w, name) ==
  /\ set_branch(w, name)
  /\ Ran("set_branch", w)
  /\ Touches(w)
  /\ UNCHANGED <<storeVars, lockVars>>
  /\ UNCHANGED <<call, raceVars>>

\* commit_on_success without the has_changes test of line 131.
commit_on_success_enter_Unchecked(w) ==
  /\ cos' = [cos EXCEPT ![w] = "in"]
  /\ cosTouched' = [cosTouched EXCEPT ![w] = FALSE]
  /\ Returns("", 0)

\* Workspace.commit_on_success, up to its yield: the generator raises before
\* the body of the with statement is run, or stops at the yield.
commit_on_success_enter(w) ==
  IF has_changes(w)
  THEN /\ Returns("RepositoryError: Repository has pending changes", 0)
       /\ UNCHANGED cosVars
  ELSE /\ cos' = [cos EXCEPT ![w] = "in"]
       /\ cosTouched' = [cosTouched EXCEPT ![w] = FALSE]
       /\ Returns("", 0)

CosEnter(w) ==
  /\ cos[w] = "out"
  /\ commit_on_success_enter(w)
  /\ Ran("cos_enter", w)
  /\ UNCHANGED <<storeVars, wsVars, lockVars>>
  /\ UNCHANGED <<call, raceVars>>

\* commit_on_success without the commit of line 138.
commit_on_success_exit_NoCommit(w) ==
  /\ Returns("", 0)
  /\ UNCHANGED <<commits, refs>>
  /\ cos' = [cos EXCEPT ![w] = "out"]
  /\ UNCHANGED cosTouched

\* Workspace.commit_on_success, the body having ended normally: the generator
\* is resumed after its yield and runs self.commit.
commit_on_success_exit(w) ==
  /\ commit(w)
  /\ cos' = [cos EXCEPT ![w] = "out"]
  /\ UNCHANGED cosTouched

CosExit(w) ==
  /\ cos[w] = "in"
  /\ has_changes(w) => Len(commits) < MaxCommits
  /\ commit_on_success_exit(w)
  /\ Ran("cos_exit", w)
  /\ UNCHANGED <<lockRefs, wsVars, lockVars>>
  /\ UNCHANGED <<call, raceVars>>

\* commit_on_success with the commit of line 138 in a finally clause.
commit_on_success_throw_Commits(w) ==
  /\ commit(w)
  /\ cos' = [cos EXCEPT ![w] = "out"]
  /\ UNCHANGED cosTouched
  /\ UNCHANGED <<head, index>>

\* Workspace.commit_on_success, the body having raised: the error is thrown
\* into the generator at its yield, which no try statement encloses, so the
\* generator ends there and the error goes on to the caller.
commit_on_success_throw(w) ==
  /\ cos' = [cos EXCEPT ![w] = "out"]
  /\ UNCHANGED cosTouched
  /\ Returns("BodyError", 0)
  /\ UNCHANGED <<commits, refs, head, index>>

CosThrow(w) ==
  /\ cos[w] = "in"
  /\ commit_on_success_throw(w)
  /\ Ran("cos_throw", w)
  /\ UNCHANGED <<lockRefs, lockVars>>
  /\ UNCHANGED <<call, raceVars>>

Next ==
  \/ \E w \in Workspaces, p \in DirPaths, n \in FileNames, c \in Contents :
       Add(w, p, <<[name |-> n, oid |-> create_blob(c)]>>)
  \/ \E w \in Workspaces, p \in BlobPaths, c \in Contents : AddBlob(w, p, c)
  \/ \E w \in Workspaces : Commit(w)
  \/ \E w \in Workspaces, n \in BranchNames, sp \in {""} \cup Branches :
       CreateBranch(w, n, sp)
  \/ \E w \in Workspaces, n \in BranchNames : SetBranch(w, n)
  \/ \E w \in Workspaces : CosEnter(w)
  \/ \E w \in Workspaces : CosExit(w)
  \/ \E w \in Workspaces : CosThrow(w)

Spec == Init /\ [][Next]_vars

\* ---------------------------------------------------------------- branches
\* One workspace adding and committing, and every workspace creating
\* branches and switching between them, with a third branch name, so that a
\* branch can be created from a start point that is not the tracked branch.
Writers == {"w1"}

NextBranch ==
  \/ \E w \in Writers, p \in BlobPaths, c \in Contents : AddBlob(w, p, c)
  \/ \E w \in Writers : Commit(w)
  \/ \E w \in Workspaces, n \in TopicNames, sp \in {""} \cup Branches :
       CreateBranch(w, n, sp)
  \/ \E w \in Workspaces, n \in TopicNames : SetBranch(w, n)

BranchSpec == Init /\ [][NextBranch]_vars

\* ------------------------------------------------------------------- trees
\* One workspace adding entries in nested and sibling directories and at the
\* root, the paths given with and without separators at their ends.
TreeDirs == {<<"foo">>, <<"/", "foo", "/", "bar", "/">>, <<"baz">>}
TreeNames == {"x", "y"}
TreeBlobPaths == {<<"foo", "/", "x">>, <<"foo", "/", "bar", "/", "y">>,
                  <<"z">>}

NextTree ==
  \/ \E p \in TreeDirs, n \in TreeNames, c \in Contents :
       Add("w1", p, <<[name |-> n, oid |-> create_blob(c)]>>)
  \/ \E p \in TreeBlobPaths, c \in Contents : AddBlob("w1", p, c)

TreeSpec == Init /\ [][NextTree]_vars

\* ------------------------------------------------------------ build_path
\* git.build_path called directly, as the tests of the module do: on no base
\* tree, or on the tree the call before has returned.
BuildPaths ==
  {<<"/", "foo", "/", "bar", "/", "baz", "/">>, <<"foo", "/", "bar">>,
   <<"/", "foo">>, << >>}
BuildNames == {"qux.txt", "test.txt"}
BuildEntries ==
  {<<[name |-> n, oid |-> create_blob(c)]>> : n \in BuildNames, c \in Contents}
  \cup {<<[name |-> "qux.txt", oid |-> create_blob("c1")],
          [name |-> "test.txt", oid |-> create_blob("c2")]>>}

Called(path, entries, based) ==
  /\ call' = [n |-> IF based THEN call.n + 1 ELSE 1,
              path |-> path, entries |-> entries, based |-> based,
              base |-> IF based THEN call.result ELSE EmptyTree,
              result |-> build_path(path, entries,
                                    IF based THEN call.result ELSE EmptyTree),
              prevPath |-> IF based THEN call.path ELSE << >>,
              prevEntries |-> IF based THEN call.entries ELSE << >>]
  /\ UNCHANGED <<storeVars, wsVars, cosVars, lastOp, ret, lockVars, raceVars>>

\* oid = git.build_path(self.repo, path, entries)
BuildPath(path, entries) == Called(path, entries, FALSE)

\* tree2 = git.build_path(self.repo, path, entries, tree1)
BuildPathOn(path, entries) ==
  /\ call.n >= 1
  /\ call.n < MaxCalls
  /\ Called(path, entries, TRUE)

NextBuild ==
  \/ \E p \in BuildPaths, e \in BuildEntries : BuildPath(p, e)
  \/ \E p \in BuildPaths, e \in BuildEntries : BuildPathOn(p, e)

BuildSpec == Init /\ [][NextBuild]_vars

\* ------------------------------------------------------- commit, by lines
\* Workspace.commit run one line at a time, so that the commits of two
\* workspaces interleave.  Each line reads the store anew: self.branch is a
\* property that looks the reference up at every use.
Committing == {w \in Workspaces : cpc[w] # "idle"}

RaceFrame == UNCHANGED <<lockRefs, wsVars, cosVars, lockVars, call>>

\* Lines 158-159: the has_changes test.
CommitCheck(w) ==
  /\ cpc[w] = "idle"
  /\ has_changes(w) => Len(commits) + Cardinality(Committing) < MaxCommits
  /\ IF ~has_changes(w)
     THEN UNCHANGED cpc
     ELSE cpc' = [cpc EXCEPT ![w] = "branch"]
  /\ cret' = [cret EXCEPT ![w] = 0]
  /\ Returns("", 0) /\ Ran("commit_check", w)
  /\ UNCHANGED <<commits, refs, cpar>>
  /\ RaceFrame

\* Lines 160-161: parents = [], and the test of self.branch.
CommitBranch(w) ==
  /\ cpc[w] = "branch"
  /\ cpar' = [cpar EXCEPT ![w] = << >>]
  /\ cpc' = [cpc EXCEPT ![w] = IF branch_exists(w) THEN "parents"
                                ELSE "create"]
  /\ Ran("commit_branch", w)
  /\ UNCHANGED <<commits, refs, cret, ret>>
  /\ RaceFrame

\* Line 162: parents = [self.branch.commit.oid].  References are never
\* deleted, so the second lookup finds the branch again.
CommitParents(w) ==
  /\ cpc[w] = "parents"
  /\ cpar' = [cpar EXCEPT ![w] = <<Branch(head[w]).oid>>]
  /\ cpc' = [cpc EXCEPT ![w] = "create"]
  /\ Ran("commit_parents", w)
  /\ UNCHANGED <<commits, refs, cret, ret>>
  /\ RaceFrame

\* Line 163: create_commit, one call into the store.
CommitCreate(w) ==
  /\ cpc[w] = "create"
  /\ create_commit(head[w], index[w], cpar[w])
  /\ cret' = [cret EXCEPT ![w] = ret'.oid]
  /\ cpc' = [cpc EXCEPT ![w] = "idle"]
  /\ Ran("commit_create", w)
  /\ UNCHANGED cpar
  /\ RaceFrame

NextRace ==
  \/ \E w \in Workspaces \ Committing, p \in BlobPaths, c \in Contents :
       AddBlob(w, p, c)
  \/ \E w \in Workspaces : CommitCheck(w)
  \/ \E w \in Workspaces : CommitBranch(w)
  \/ \E w \in Workspaces : CommitParents(w)
  \/ \E w \in Workspaces : CommitCreate(w)

RaceSpec == Init /\ [][NextRace]_vars

\* ------------------------------------------------------------------- lock
\* The names a Workspace instance has: the methods and properties of the
\* class and the attributes __init__ assigns.  Any other self.<name> raises
\* AttributeError.
WorkspaceAttrs ==
  {"config", "repo", "index", "head", "GitModel", "log",
   "create_blob", "create_branch", "set_branch", "branch", "update_index",
   "add", "add_blob", "commit_on_success", "diff", "has_changes", "commit",
   "create_commit", "walk", "lock", "locked"}

\* `from time import time` binds the name time to the function time.time,
\* not to the module: these are the attributes that a built-in function
\* has, and sleep is not one of them.
TimeAttrs == {"__call__", "__name__", "__doc__", "__module__", "__self__"}

\* Workspace.locked
locked(id) == id \in lockRefs

LockRaises(w, err) ==
  /\ lockPc' = [lockPc EXCEPT ![w] = "idle"]
  /\ lockErr' = [lockErr EXCEPT ![w] = err]
  /\ UNCHANGED lockRefs

\* Workspace.lock, line 206: the call reads the clock.
LockCall(w, id) ==
  /\ lockPc[w] = "idle"
  /\ lockPc' = [lockPc EXCEPT ![w] = "check"]
  /\ lockId' = [lockId EXCEPT ![w] = id]
  /\ lockStart' = [lockStart EXCEPT ![w] = now]
  /\ lockErr' = [lockErr EXCEPT ![w] = ""]
  /\ UNCHANGED <<storeVars, wsVars, cosVars, lastOp, ret, now>>
  /\ UNCHANGED <<call, raceVars>>

\* Workspace.lock, line 207: the condition of the while loop.
LockCheck(w) ==
  /\ lockPc[w] = "check"
  /\ lockPc' = [lockPc EXCEPT ![w] = IF locked(lockId[w]) THEN "poll"
                                     ELSE "create"]
  /\ UNCHANGED <<storeVars, wsVars, cosVars, lastOp, ret, now, lockId,
                 lockStart, lockErr>>
  /\ UNCHANGED <<call, raceVars>>

\* Workspace.lock, lines 208-212: the body of the while loop.  Building the
\* message of the timeout error reads self.path; sleeping reads time.sleep.
lock_poll(w) ==
  IF now - lockStart[w] > LOCK_WAIT_TIMEOUT
  THEN IF "path" \in WorkspaceAttrs
       THEN LockRaises(w, "LockWaitTimeoutExceeded")
       ELSE LockRaises(w, "AttributeError")
  ELSE IF "sleep" \in TimeAttrs
       THEN /\ lockPc' = [lockPc EXCEPT ![w] = "check"]
            /\ UNCHANGED <<lockErr, lockRefs>>
       ELSE LockRaises(w, "AttributeError")

LockPoll(w) ==
  /\ lockPc[w] = "poll"
  /\ lock_poll(w)
  /\ UNCHANGED <<commits, refs, wsVars, cosVars, lastOp, ret, now, lockId,
                 lockStart>>
  /\ UNCHANGED <<call, raceVars>>

\* lock creating the reference through the store, overwriting.
lock_create_Forced(w) ==
  /\ lockRefs' = lockRefs \cup {lockId[w]}
  /\ lockPc' = [lockPc EXCEPT ![w] = "scope"]
  /\ UNCHANGED lockErr

\* Workspace.lock, lines 215-216: the reference is created by a method of
\* the Workspace itself, self.create_reference.  Were there one, the
\* generator would stop at its yield inside the scope ("scope"), and lines
\* 217-218 would delete the reference once the body has ended normally.
lock_create(w) ==
  IF "create_reference" \in WorkspaceAttrs
  THEN /\ lockRefs' = lockRefs \cup {lockId[w]}
       /\ lockPc' = [lockPc EXCEPT ![w] = "scope"]
       /\ UNCHANGED lockErr
  ELSE LockRaises(w, "AttributeError")

LockCreate(w) ==
  /\ lockPc[w] = "create"
  /\ lock_create(w)
  /\ UNCHANGED <<commits, refs, wsVars, cosVars, lastOp, ret, now, lockId,
                 lockStart>>
  /\ UNCHANGED <<call, raceVars>>

\* The wall clock advances.
Tick ==
  /\ now < MaxTime
  /\ now' = now + 1
  /\ UNCHANGED <<storeVars, wsVars, cosVars, lastOp, ret, lockPc, lockId,
                 lockStart, lockErr>>
  /\ UNCHANGED <<call, raceVars>>

\* The repository a Workspace is opened on may hold lock references that
\* another client of the store has left there.
InitLock == InitWorkspace /\ lockRefs \in SUBSET LockIds

NextLock ==
  \/ \E w \in Workspaces, id \in LockIds : LockCall(w, id)
  \/ \E w \in Workspaces : LockCheck(w)
  \/ \E w \in Workspaces : LockPoll(w)
  \/ \E w \in Workspaces : LockCreate(w)
  \/ Tick

LockSpec == InitLock /\ [][NextLock]_vars


\* ------------------------------------------------------------- properties
\* The step is operation op of workspace w.
Step(op, w) == lastOp' = [op |-> op, w |-> w]
\* The state is the one operation op of workspace w has left.
After(op, w) == lastOp = [op |-> op, w |-> w]
\* The step adds exactly one commit, of the index of w, to the store, makes
\* the tracked branch of w point at it and returns its identifier.
CommitsIndex(w) ==
  LET new == Len(commits) + 1
  IN  /\ Len(commits') = new
      /\ SubSeq(commits', 1, Len(commits)) = commits
      /\ commits'[new].tree = index[w]
      /\ refs' = [refs EXCEPT ![head[w]] = new]
      /\ ret' = [err |-> "", oid |-> new]
RepositoryError ==
  {"RepositoryError: Reference not found",
   "RepositoryError: Cannot checkout a different branch with pending changes",
   "RepositoryError: Repository has pending changes"}

\* C1: a commit() made when has_changes() is true adds exactly one commit to
\* the store, whose tree is the index and whose parents are the branch tip of
\* the moment of the call, or none when the branch reference does not exist;
\* the branch reference then points at the new commit, whose id is returned.
C1_CommitWritesIndex ==
  [][\A w \in Workspaces :
       (Step("commit", w) /\ has_changes(w)) =>
         /\ CommitsIndex(w)
         /\ commits'[Len(commits) + 1].parents =
              IF refs[head[w]] # 0 THEN <<refs[head[w]]>> ELSE << >>
         /\ UNCHANGED <<head, index, lockRefs>>]_vars

\* A commit() has returned the id of a commit that has a parent.
C1_Witness ==
  /\ lastOp.op = "commit"
  /\ ret.oid # 0
  /\ commits[ret.oid].parents # << >>

\* C2: in the state a commit() that returned a commit id leaves, the
\* workspace has no changes: its index is the tree of the commit its branch
\* reference points at.
C2_CleanAfterCommit ==
  \A w \in Workspaces :
    (After("commit", w) /\ ret.oid # 0) =>
      /\ ~has_changes(w)
      /\ refs[head[w]] # 0
      /\ index[w] = commits[refs[head[w]]].tree

\* A commit() has returned the id of a root commit.
C2_Witness ==
  /\ lastOp.op = "commit"
  /\ ret.oid # 0
  /\ commits[ret.oid].parents = << >>

\* C3: a set_branch made when has_changes() is true fails with
\* RepositoryError (Reference not found when the target does not exist, the
\* pending-changes error otherwise) and changes neither index nor head.
C3_SetBranchRefusesDirty ==
  [][\A w \in Workspaces :
       (Step("set_branch", w) /\ has_changes(w)) =>
         /\ ret'.err \in RepositoryError
         /\ UNCHANGED <<index, head>>]_vars

C5_LockReleasedAndAcquirable ==
  \A w \in Workspaces :
    (lockPc[w] = "idle" /\ ~locked(lockId[w])) => lockErr[w] = ""

\* C6: a lock(id) call that found the reference present does not end before
\* the reference is gone, except by LockWaitTimeoutExceeded, raised when more
\* than LOCK_WAIT_TIMEOUT has passed since the call started.
C6_LockWaitsOrTimesOut ==
  [][\A w \in Workspaces :
       (lockPc[w] = "poll" /\ lockPc'[w] = "idle") =>
         /\ lockErr'[w] = "LockWaitTimeoutExceeded"
         /\ now - lockStart[w] > LOCK_WAIT_TIMEOUT]_vars

\* C7: when the body of a commit_on_success scope raises, leaving the scope
\* adds no commit, moves no reference and keeps the index as the body left
\* it: a workspace the body has made dirty stays dirty.
C7_NoCommitNoRollbackOnError ==
  [][\A w \in Workspaces :
       Step("cos_throw", w) =>
         /\ UNCHANGED <<commits, refs, lockRefs, head, index>>
         /\ has_changes(w) => has_changes(w)'
         /\ cos'[w] = "out"]_vars

\* A commit_on_success scope whose body changed the index has been left by
\* an error, with the workspace dirty.
C7_Witness ==
  /\ lastOp.op = "cos_throw"
  /\ cosTouched[lastOp.w]
  /\ has_changes(lastOp.w)

\* C8: entering a commit_on_success scope when has_changes() is true raises
\* RepositoryError: the scope is not entered, no commit is added, and the
\* index, the head and every reference stay as they are.
C8_EnterRefusesDirty ==
  [][\A w \in Workspaces :
       (Step("cos_enter", w) /\ has_changes(w)) =>
         /\ ret'.err = "RepositoryError: Repository has pending changes"
         /\ cos'[w] = "out"
         /\ UNCHANGED <<commits, refs, lockRefs, head, index>>]_vars

\* Entering a commit_on_success scope has raised.
C8_Witness ==
  /\ lastOp.op = "cos_enter"
  /\ ret.err # ""
  /\ cos[lastOp.w] = "out"

\* C9, as claimed: when the body of a commit_on_success scope ends normally,
\* leaving the scope commits the index if the body changed the index, and
\* adds no commit if it did not.
C9_CommitsIffBodyChangedIndex ==
  [][\A w \in Workspaces :
       Step("cos_exit", w) =>
         IF cosTouched[w]
         THEN /\ CommitsIndex(w)
              /\ ~has_changes(w)'
         ELSE commits' = commits]_vars

\* C9, amended: when the body of a commit_on_success scope ends normally,
\* leaving the scope runs commit(): if has_changes() is true at that moment,
\* the branch reference then points at a new commit whose tree is the index
\* and has_changes() is false; if it is false, no commit is added.
C9_CommitsIffHasChanges ==
  [][\A w \in Workspaces :
       Step("cos_exit", w) =>
         /\ cos'[w] = "out"
         /\ UNCHANGED <<head, index>>
         /\ IF has_changes(w)
            THEN /\ CommitsIndex(w)
                 /\ ~has_changes(w)'
            ELSE /\ UNCHANGED <<commits, refs>>
                 /\ ret' = [err |-> "", oid |-> 0]]_vars

\* Leaving a commit_on_success scope whose body changed the index has added
\* a commit with a parent, and the workspace is clean.
C9_Witness ==
  /\ lastOp.op = "cos_exit"
  /\ cosTouched[lastOp.w]
  /\ ret.oid # 0
  /\ commits[ret.oid].parents # << >>
  /\ ~has_changes(lastOp.w)

\* C10: a commit() made when has_changes() is false returns None, adds no
\* commit and leaves the references, the head and the index as they are.
C10_CommitNoChangesIsNoOp ==
  [][\A w \in Workspaces :
       (Step("commit", w) /\ ~has_changes(w)) =>
         /\ ret' = [err |-> "", oid |-> 0]
         /\ UNCHANGED <<commits, refs, lockRefs, head, index>>]_vars

\* A commit() has returned None.
C10_Witness ==
  /\ lastOp.op = "commit"
  /\ ret.oid = 0
  /\ ~has_changes(lastOp.w)

\* The tree of the commit the tracked branch of w points at, the empty tree
\* when the reference does not exist.
TipTree(w) ==
  IF refs[head[w]] = 0 THEN {} ELSE commits[refs[head[w]]].tree
\* The names of a path, its separators left out.
Names(path) == SelectSeq(path, LAMBDA t : t # "/")
\* The tree with the leaf put in place of the leaf of the same path, if any.
Plus(tree, leaf) == {t \in tree : t.path # leaf.path} \cup {leaf}

\* C11: has_changes() is true exactly when the index differs from the tree
\* of the tip of the tracked branch (from the empty tree when the reference
\* does not exist); so it is, in particular, in the state an add or add_blob
\* leaves.
C11_HasChangesIffIndexDiffers ==
  \A w \in Workspaces : has_changes(w) <=> index[w] # TipTree(w)

\* An add or add_blob has put back the leaf the branch tip holds: the
\* workspace, whose index is not empty, has no changes.
C11_Witness ==
  /\ lastOp.op \in {"add", "add_blob"}
  /\ index[lastOp.w] # {}
  /\ ~has_changes(lastOp.w)

\* C12: an add or add_blob replaces the index of the workspace it is called
\* on by the previous index plus the entry given, and changes nothing else:
\* no commit, no branch or lock reference, no head, no other index.
C12_AddChangesOnlyOwnIndex ==
  [][\A w \in Workspaces :
       /\ (Step("add", w) \/ Step("add_blob", w)) =>
            /\ UNCHANGED <<commits, refs, lockRefs, head>>
            /\ \A v \in Workspaces \ {w} : index'[v] = index[v]
       /\ Step("add", w) =>
            \A p \in DirPaths, n \in FileNames, c \in Contents :
              Add(w, p, <<[name |-> n, oid |-> create_blob(c)]>>) =>
                index'[w] = Plus(index[w], [path |-> Names(p) \o <<n>>,
                                            oid |-> <<"blob", c>>])
       /\ Step("add_blob", w) =>
            \A p \in BlobPaths, c \in Contents :
              AddBlob(w, p, c) =>
                index'[w] = Plus(index[w], [path |-> Names(p),
                                            oid |-> <<"blob", c>>])]_vars

\* An add or add_blob has run on a workspace while the other one holds a
\* different index and the default branch exists.
C12_Witness ==
  /\ lastOp.op \in {"add", "add_blob"}
  /\ index[lastOp.w] # {}
  /\ \E v \in Workspaces : index[v] # index[lastOp.w]
  /\ refs[DEFAULT_BRANCH] # 0

\* C13: set_branch(name) on a workspace without pending changes, the
\* reference refs/heads/name existing, succeeds: the head is that reference,
\* the index the tree of its commit, and has_changes() is false.
C13_SetBranchSwitchesWhenClean ==
  [][\A w \in Workspaces, n \in TopicNames :
       (/\ Step("set_branch", w)
        /\ ~has_changes(w) /\ refs[head_ref(n)] # 0
        /\ SetBranch(w, n)) =>
         /\ ret'.err = ""
         /\ head'[w] = head_ref(n)
         /\ index'[w] = commits[refs[head_ref(n)]].tree
         /\ ~has_changes(w)']_vars

\* A set_branch has moved a workspace to a branch other than the default
\* one, whose tree differs from the tree of the default branch.
C13_Witness ==
  /\ lastOp.op = "set_branch"
  /\ ret.err = ""
  /\ head[lastOp.w] # DEFAULT_BRANCH
  /\ index[lastOp.w] # commits[refs[DEFAULT_BRANCH]].tree

Dirs(tree) ==
  UNION {{SubSeq(t.path, 1, i) : i \in 0..(Len(t.path) - 1)} : t \in tree}
\* The identifier of directory dir of a tree: by content addressing, what
\* the directory holds, the paths taken from it (nothing when it is absent).
Subtree(tree, dir) ==
  {[path |-> SubSeq(t.path, Len(dir) + 1, Len(t.path)), oid |-> t.oid] :
     t \in {u \in tree : IsPrefix(dir, u.path) /\ u.path # dir}}
\* Going from tree `old` to tree `new` by an update in the directory `at` of
\* the entry `name`, every entry that is not the one updated keeps its
\* identifier, and so does every directory that `at` does not go through.
SharesAllBut(old, new, at, name) ==
  /\ \A t \in old : t.path # at \o <<name>> => t \in new
  /\ \A t \in new : t.path # at \o <<name>> => t \in old
  /\ \A d \in Dirs(old) \cup Dirs(new) :
       ~IsPrefix(d, at) => Subtree(new, d) = Subtree(old, d)

\* C15: an add (a build_path update on the index) at directory P leaves
\* every entry and every subtree that is not on the way from the root to P
\* with the identifier it had; only the directories P goes through may get
\* a new one.
C15_SiblingsKeepIdentifiers ==
  [][/\ Step("add", "w1") =>
          \A p \in TreeDirs, n \in TreeNames, c \in Contents :
            Add("w1", p, <<[name |-> n, oid |-> create_blob(c)]>>) =>
              SharesAllBut(index["w1"], index'["w1"], Names(p), n)
     /\ Step("add_blob", "w1") =>
          \A p \in TreeBlobPaths, c \in Contents :
            AddBlob("w1", p, c) =>
              SharesAllBut(index["w1"], index'["w1"],
                           SubSeq(Names(p), 1, Len(Names(p)) - 1),
                           Names(p)[Len(Names(p))])]_vars

\* An add has run on an index holding foo/x, foo/bar/y and baz/x, with
\* different blobs in foo/x and baz/x: directories beside and below the
\* one updated exist.
C15_Witness ==
  /\ lastOp.op = "add"
  /\ \E t \in index["w1"] : t.path = <<"foo", "bar", "y">>
  /\ \E t, u \in index["w1"] :
       /\ t.path = <<"foo", "x">>
       /\ u.path = <<"baz", "x">>
       /\ t.oid # u.oid

\* The path and the entry of test_build_path_empty and test_build_path_update.
TestPath == <<"/", "foo", "/", "bar", "/", "baz", "/">>
\* The leaves the entries make in the directory `segments`.
Leaves(segments, entries) ==
  {[path |-> segments \o <<entries[i].name>>, oid |-> entries[i].oid] :
     i \in DOMAIN entries}
\* The description of a chain of nested directories holding files in the
\* deepest one.
ChainText(segments, files) ==
  join([i \in 1..(Len(segments) + Len(files)) |->
          IF i <= Len(segments)
          THEN indent(i - 1) \o segments[i] \o "/"
          ELSE indent(Len(segments)) \o files[i - Len(segments)]])

\* C16: a build_path on the tree that a build_path of the same path has
\* returned, with another blob for the same leaf names, returns a tree of
\* the same paths and the same description, holding each leaf once, with
\* the blob of the second call.
C16_UpdateReplacesLeaf ==
  (/\ call.based
   /\ call.path = call.prevPath
   /\ Len(call.entries) = Len(call.prevEntries)
   /\ \A i \in DOMAIN call.entries :
        /\ call.entries[i].name = call.prevEntries[i].name
        /\ call.entries[i].oid # call.prevEntries[i].oid) =>
    /\ {t.path : t \in call.result} = {t.path : t \in call.base}
    /\ Cardinality(call.result) = Cardinality(call.base)
    /\ describe_tree(call.result) = describe_tree(call.base)
    /\ \A l \in Leaves(Names(call.path), call.entries) :
         {t \in call.result : t.path = l.path} = {l}

\* The calls of test_build_path_update: the path /foo/bar/baz/ built twice,
\* qux.txt with one content and then with another.
C16_Witness ==
  /\ call.n = 2
  /\ call.based
  /\ call.path = TestPath
  /\ call.prevPath = TestPath
  /\ call.entries = <<[name |-> "qux.txt", oid |-> <<"blob", "c2">>]>>
  /\ call.prevEntries = <<[name |-> "qux.txt", oid |-> <<"blob", "c1">>]>>
  /\ call.base # call.result

\* C17: build_path on no base tree returns the chain of the directories the
\* path names, separators at its ends dropped, the deepest holding exactly
\* the entries; describe_tree gives each directory as its name and "/", each
\* level two spaces deeper; for /foo/bar/baz/ and qux.txt it gives
\* 'foo/\n  bar/\n    baz/\n      qux.txt'.
C17_EmptyBaseBuildsChain ==
  (call.n >= 1 /\ ~call.based) =>
    /\ call.result = Leaves(Names(call.path), call.entries)
    /\ Dirs(call.result) = {SubSeq(Names(call.path), 1, i) :
                              i \in 0..Len(Names(call.path))}
    /\ describe_tree(call.result) =
         ChainText(Names(call.path),
                   [i \in DOMAIN call.entries |-> call.entries[i].name])
    /\ (call.path = TestPath /\ Len(call.entries) = 1
        /\ call.entries[1].name = "qux.txt") =>
         describe_tree(call.result) = "foo/\n  bar/\n    baz/\n      qux.txt"

\* The call of test_build_path_empty.
C17_Witness ==
  /\ call.n = 1
  /\ ~call.based
  /\ call.path = TestPath
  /\ call.entries = <<[name |-> "qux.txt", oid |-> <<"blob", "c1">>]>>
  /\ Cardinality(call.result) = 1

\* C18: the commits of two workspaces on the same branch, both with pending
\* changes, their lines interleaved in any order: no line raises an error,
\* each commit() that has passed its has_changes test writes a commit of
\* its index whatever the reference has become meanwhile, and the
\* reference points at the commit written last.
C18_InterleavedCommitsLastWriterWins ==
  [][/\ ret'.err = ""
     /\ commits' # << >> => refs'[DEFAULT_BRANCH] = Len(commits')
     /\ \A w \in Workspaces :
          /\ (Step("commit_check", w) /\ has_changes(w)) => cpc'[w] # "idle"
          /\ (cpc[w] # "idle" /\ cpc'[w] = "idle") =>
               /\ Step("commit_create", w)
               /\ commits' = Append(commits, [tree |-> index[w],
                                              parents |-> cpar[w]])
               /\ refs'[head[w]] = Len(commits) + 1
               /\ cret'[w] = Len(commits) + 1]_vars

\* Both workspaces have committed to the default branch, the second commit
\* written having been started before the first was: it has no parent, and
\* the reference points at it.
C18_Witness ==
  /\ Len(commits) = 2
  /\ commits[2].parents = << >>
  /\ commits[1].tree # commits[2].tree
  /\ {cret[w] : w \in Workspaces} = {1, 2}
  /\ Committing = {}
  /\ refs[DEFAULT_BRANCH] = 2

\* The step is a commit (by commit() or on leaving a commit_on_success
\* scope) of workspace w.
CommitStep(w) == Step("commit", w) \/ Step("cos_exit", w)
\* The step is an add or add_blob of workspace w.
AddStep(w) == Step("add", w) \/ Step("add_blob", w)
\* The step is a commit of another workspace that moves the reference w
\* tracks.
OtherCommitMovesTip(w) ==
  \E v \in Workspaces \ {w} :
    /\ CommitStep(v)
    /\ head[v] = head[w]
    /\ refs'[head[w]] # refs[head[w]]

C20_HistoryIsOneChain ==
  (commits # << >> /\ \A b \in Branches \ {DEFAULT_BRANCH} : refs[b] = 0) =>
    /\ \A c \in DOMAIN commits : Len(commits[c].parents) <= 1
    /\ \A w \in Workspaces : walk(w) = DOMAIN commits

\* Three commits have been made on the only branch, the last one by a
\* workspace other than the one that made the first.
C20_Witness ==
  /\ Len(commits) = 3
  /\ \A b \in Branches \ {DEFAULT_BRANCH} : refs[b] = 0
  /\ lastOp.op = "commit"
  /\ ret.oid = 3
  /\ commits[3].tree # commits[2].tree
  /\ index[lastOp.w] # commits[1].tree
  /\ \E w \in Workspaces : index[w] = commits[1].tree

=============================================================================
